---- MODULE Spec2Model ----
\* State-machine model of the FastAPI record-keeping service:
\*   app/api/deps.py, app/api/routes/auth.py, app/api/routes/items.py,
\*   app/services/user_service.py, app/services/item_service.py,
\*   app/db/models/*.py and the alembic migration.
\* The relational store is the pair (users, items), read and written one
\* statement at a time (READ COMMITTED): a handler that makes several store
\* round trips is one action per round trip, and the requests that the
\* thread-pool workers handle at the same time interleave between them.
EXTENDS Integers, Sequences, FiniteSets, TLC

VARIABLES users, items, nextUserId, nextItemId, now, held, reqs, resp

vars == <<users, items, nextUserId, nextItemId, now, held, reqs, resp>>

\* ------------------------------------------------------------------ bounds
MaxUsers == 2
MaxItems == 2
MaxTime == 60

\* ------------------------------------------------------- program constants
ACCESS_TOKEN_EXPIRE_MINUTES == 30

\* --------------------------------------------------------------- inputs
Workers == {"w1", "w2"}
Emails == {<<"a">>, <<"A">>, <<"b">>}
Passwords == {"pw12345678", "hunter2hunter2"}
RegisterPasswords == {"pw12345678"}
RegisterEmails == {<<"a">>, <<"b">>}
CreateTitles == {"groceries"}
CreateDescriptions == {"<None>", "milk"}
UpdateTitles == {"<None>", ""}
UpdateDescriptions == {"<None>", "milk"}
FullNames == {"<None>"}
UpdateFullNames == {"<None>", "Ann"}
UpdatePasswords == {"<None>", "hunter2hunter2"}
None == "<None>"
NoneId == 0

\* ------------------------------------------------------------- str.lower
LowerChar(c) ==
    CASE c = "A" -> "a"
      [] c = "B" -> "b"
      [] OTHER -> c

Lower(s) == [i \in DOMAIN s |-> LowerChar(s[i])]

\* ------------------------------------------------- uuid.UUID <-> str
\* A UUID is modelled by its ordinal n >= 1; str(uuid) is the sequence
\* <<"uuid", n>>, the empty string is <<>>, and any other sequence is a string
\* that is not the text of a UUID: uuid.UUID raises ValueError on it.
UUIDstr(id) == <<"uuid", id>>

ValueError == -1

UUID(s) == IF Len(s) = 2 /\ s[1] = "uuid" THEN s[2] ELSE ValueError

\* ------------------------------------------------ password hasher (4.1)
\* get_password_hash draws a random salt at every call; the call made while
\* the n-th identity is the next to be created is given the salt <<"salt", n>>.
NewSalt(n) == <<"salt", n>>

get_password_hash(password, salt) ==
    [alg |-> "bcrypt", salt |-> salt, digest |-> <<salt, password>>]

verify_password(password, hashed) ==
    /\ hashed.alg = "bcrypt"
    /\ hashed.digest = <<hashed.salt, password>>

\* ---------------------------------------------------- token codec (4.2)
NoToken == [kind |-> "none", sub |-> <<>>, exp |-> 0]
BadSigToken == [kind |-> "badsig", sub |-> <<>>, exp |-> 0]
MalformedToken == [kind |-> "malformed", sub |-> <<>>, exp |-> 0]
EmptySubToken == [kind |-> "signed", sub |-> <<>>, exp |-> MaxTime + ACCESS_TOKEN_EXPIRE_MINUTES]
BadSubToken ==
    [kind |-> "signed", sub |-> <<"not-a-uuid">>, exp |-> MaxTime + ACCESS_TOKEN_EXPIRE_MINUTES]
\* Signed, with a claim that jwt.decode accepts and TokenPayload does not (an
\* exp with a fraction).
BadClaimToken == [kind |-> "badclaim", sub |-> <<>>, exp |-> 0]

create_access_token(subject, t, expires_delta) ==
    [kind |-> "signed", sub |-> subject, exp |-> t + expires_delta]

\* jwt.decode + TokenPayload(**payload), and the exception it raises if any.
jwt_decode(token, t) ==
    IF token.kind = "signed" /\ token.exp >= t
    THEN [raised |-> "", sub |-> token.sub]
    ELSE IF token.kind = "badclaim"
    THEN [raised |-> "ValidationError", sub |-> <<>>]
    ELSE [raised |-> "JWTError", sub |-> <<>>]

\* ------------------------------------------------------------ responses
NoToks == <<>>

Response(status, detail) ==
    [status |-> status, detail |-> detail, items |-> <<>>, user |-> <<>>, token |-> NoToks]

NoResponse == Response(0, "")

ItemRead(db_items, id) ==
    [id |-> id, title |-> db_items[id].title,
     description |-> db_items[id].description, owner_id |-> db_items[id].owner_id]

UserRead(db_users, id) ==
    [id |-> id, email |-> db_users[id].email, full_name |-> db_users[id].full_name,
     is_active |-> db_users[id].is_active, is_superuser |-> db_users[id].is_superuser]

\* ---------------------------------------------------------- user_service
get_user(db_users, user_id) ==
    IF user_id \in DOMAIN db_users THEN user_id ELSE NoneId

get_user_by_email(db_users, email) ==
    IF \E id \in DOMAIN db_users : db_users[id].email = Lower(email)
    THEN CHOOSE id \in DOMAIN db_users : db_users[id].email = Lower(email)
    ELSE NoneId

\* create_user storing the email as typed.
create_user_email_as_typed(email, full_name, password, salt, is_superuser) ==
    [email |-> email,
     full_name |-> full_name,
     hashed_password |-> get_password_hash(password, salt),
     is_active |-> TRUE,
     is_superuser |-> is_superuser]

\* create_user granting the superuser flag.
create_user_as_superuser(email, full_name, password, salt, is_superuser) ==
    [email |-> Lower(email),
     full_name |-> full_name,
     hashed_password |-> get_password_hash(password, salt),
     is_active |-> TRUE,
     is_superuser |-> TRUE]

create_user(email, full_name, password, salt, is_superuser) ==
    [email |-> Lower(email),
     full_name |-> full_name,
     hashed_password |-> get_password_hash(password, salt),
     is_active |-> TRUE,
     is_superuser |-> is_superuser]

update_user(user, full_name, password, salt) ==
    [user EXCEPT !.full_name = IF full_name # None THEN full_name ELSE @,
                 !.hashed_password = IF password # None
                                     THEN get_password_hash(password, salt) ELSE @]

authenticate_user(db_users, email, password) ==
    LET user == get_user_by_email(db_users, Lower(email)) IN
    IF user = NoneId THEN NoneId
    ELSE IF ~verify_password(password, db_users[user].hashed_password) THEN NoneId
    ELSE user

\* ---------------------------------------------------------- item_service
RECURSIVE OrderDesc(_, _)
OrderDesc(db_items, ids) ==
    IF ids = {} THEN <<>>
    ELSE LET m == CHOOSE i \in ids :
                    \A j \in ids : db_items[j].created_at <= db_items[i].created_at
         IN <<m>> \o OrderDesc(db_items, ids \ {m})

list_items(db_items, owner_id) ==
    LET ids == {i \in DOMAIN db_items : db_items[i].owner_id = owner_id}
        ordered == OrderDesc(db_items, ids)
    IN [k \in 1..Len(ordered) |-> ItemRead(db_items, ordered[k])]

\* A lookup by id alone, the owner filter dropped.
get_item_by_id_alone(db_items, owner_id, item_id) ==
    IF item_id \in DOMAIN db_items THEN item_id ELSE NoneId

get_item(db_items, owner_id, item_id) ==
    IF item_id \in DOMAIN db_items /\ db_items[item_id].owner_id = owner_id
    THEN item_id ELSE NoneId

\* (updated_at, which the store writes and no route reads, is left out.)
create_item(owner_id, title, description, created_at) ==
    [title |-> title, description |-> description, owner_id |-> owner_id,
     created_at |-> created_at]

\* An update that assigns both fields whether or not they were sent.
update_item_unconditional(item, title, description) ==
    [item EXCEPT !.title = title, !.description = description]

update_item(item, title, description) ==
    [item EXCEPT !.title = IF title # None THEN title ELSE @,
                 !.description = IF description # None THEN description ELSE @]

\* db.add and db.commit of update_item: the UPDATE that the flush sends sets the columns whose attribute differs from the value the row was
\* loaded with, and no other.
commit_item(row, loaded, updated) ==
    [row EXCEPT !.title = IF updated.title # loaded.title THEN updated.title ELSE @,
                !.description = IF updated.description # loaded.description
                                THEN updated.description ELSE @]

delete_item(db_items, item_id) ==
    [i \in DOMAIN db_items \ {item_id} |-> db_items[i]]

\* ------------------------------------------------------------------ deps
Denied(status, detail) == [ok |-> FALSE, status |-> status, detail |-> detail, user |-> NoneId]

Granted(user) == [ok |-> TRUE, status |-> 200, detail |-> "", user |-> user]

\* get_current_user answering 404 for an identity that is gone.
get_current_user_gone_404(db_users, token, t) ==
    LET payload == jwt_decode(token, t) IN
    IF payload.raised = "JWTError" THEN Denied(401, "Could not validate credentials")
    ELSE IF payload.raised # "" THEN Denied(500, "Internal Server Error")
    ELSE IF payload.sub = <<>> THEN Denied(401, "Could not validate credentials")
    ELSE LET user_id == UUID(payload.sub) IN
         IF user_id = ValueError THEN Denied(500, "Internal Server Error")
         ELSE LET user == get_user(db_users, user_id) IN
              IF user = NoneId THEN Denied(404, "User not found")
              ELSE Granted(user)

\* The except clause catches JWTError alone, and UUID(token_data.sub) is
\* outside the try block: a ValidationError of TokenPayload and a ValueError
\* of UUID are not caught and the request ends in a 500.
get_current_user(db_users, token, t) ==
    LET payload == jwt_decode(token, t) IN
    IF payload.raised = "JWTError" THEN Denied(401, "Could not validate credentials")
    ELSE IF payload.raised # "" THEN Denied(500, "Internal Server Error")
    ELSE IF payload.sub = <<>> THEN Denied(401, "Could not validate credentials")
    ELSE LET user_id == UUID(payload.sub) IN
         IF user_id = ValueError THEN Denied(500, "Internal Server Error")
         ELSE LET user == get_user(db_users, user_id) IN
              IF user = NoneId THEN Denied(401, "User not found")
              ELSE Granted(user)

\* get_current_active_user without the is_active test.
get_current_active_user_ungated(db_users, current_user) == current_user

get_current_active_user(db_users, current_user) ==
    IF ~current_user.ok THEN current_user
    ELSE IF ~db_users[current_user.user].is_active THEN Denied(400, "Inactive user")
    ELSE current_user

get_current_active_superuser(db_users, current_user) ==
    IF ~current_user.ok THEN current_user
    ELSE IF ~db_users[current_user.user].is_superuser
         THEN Denied(403, "Insufficient privileges")
    ELSE current_user

\* ---------------------------------------------------------------- state
\* A worker's request in flight: where its handler stands and what it holds.
\*   "idle"     no request;
\*   "create"      register_user past its duplicate check, about to create_user;
\*   "registered"  create_user past its commit, about to refresh the user;
\*   "handler"     an /items route other than POST /items whose dependency has
\*                 injected current_user;
\*   "create_item" POST /items, its dependency having injected current_user;
\*   "created"     create_item past its commit, about to refresh the item;
\*   "update"      update_item_by_id holding the item that get_item loaded;
\*   "updated"     update_item past its commit, about to refresh the item;
\*   "delete"      delete_item_by_id holding the item that get_item loaded.
\* began is the start time of the request's open transaction (0: none that
\* matters), the value of now() in its statements.
Idle ==
    [pc |-> "idle", user |-> NoneId, item |-> NoneId, loaded |-> <<>>,
     email |-> <<>>, password |-> "", began |-> 0]

Init ==
    /\ users = <<>>
    /\ items = <<>>
    /\ nextUserId = 1
    /\ nextItemId = 1
    /\ now = 0
    /\ held = NoToken
    /\ reqs = [w \in Workers |-> Idle]
    /\ resp = NoResponse

\* The bearer tokens a client can present: the one its last login issued (held),
\* or one it made up. The record operations are given one made-up token, the
\* operations of the authentication core each kind.
Bearers == {held, BadSigToken} \ {NoToken}

AuthBearers ==
    {held, BadSigToken, MalformedToken, EmptySubToken, BadSubToken, BadClaimToken} \ {NoToken}

ItemIds == 1..MaxItems

\* ------------------------------------------------------- routes/auth.py
\* POST /auth/register, first store round trip: the duplicate check.
RegisterCheck(w, email, password) ==
    /\ reqs[w].pc = "idle"
    /\ nextUserId + Cardinality({v \in Workers : reqs[v].pc = "create"}) <= MaxUsers
    /\ LET existing == get_user_by_email(users, email) IN
       IF existing # NoneId
       THEN /\ resp' = Response(400, "Email already registered")
            /\ UNCHANGED reqs
       ELSE /\ resp' = NoResponse
            /\ reqs' = [reqs EXCEPT ![w] = [Idle EXCEPT !.pc = "create", !.email = email,
                                                        !.password = password]]
    /\ UNCHANGED <<users, items, nextUserId, nextItemId, now, held>>

\* POST /auth/register, second store round trip, after other requests may
\* have committed: create_user's INSERT and commit. The unique index
\* ix_users_email rejects a second row with the same email: the commit raises
\* IntegrityError, which no handler catches, so the request ends in a 500.
RegisterCreate(w, full_name) ==
    /\ reqs[w].pc = "create"
    /\ LET user == create_user(reqs[w].email, full_name, reqs[w].password,
                               NewSalt(nextUserId), FALSE)
       IN IF \E id \in DOMAIN users : users[id].email = user.email
          THEN /\ resp' = Response(500, "Internal Server Error")
               /\ reqs' = [reqs EXCEPT ![w] = Idle]
               /\ UNCHANGED <<users, nextUserId>>
          ELSE /\ nextUserId <= MaxUsers
               /\ users' = [id \in DOMAIN users \cup {nextUserId} |->
                               IF id = nextUserId THEN user ELSE users[id]]
               /\ nextUserId' = nextUserId + 1
               /\ resp' = NoResponse
               /\ reqs' = [reqs EXCEPT ![w] = [Idle EXCEPT !.pc = "registered",
                                                           !.user = nextUserId]]
    /\ UNCHANGED <<items, nextItemId, now, held>>

\* POST /auth/register, third store round trip: create_user's db.refresh, a
\* SELECT by primary key, and the 201 built from the row it finds. With the row
\* gone the refresh raises InvalidRequestError, uncaught: a 500.
RegisterRefresh(w) ==
    /\ reqs[w].pc = "registered"
    /\ resp' = IF reqs[w].user \notin DOMAIN users
               THEN Response(500, "Internal Server Error")
               ELSE [Response(201, "") EXCEPT !.user = <<UserRead(users, reqs[w].user)>>]
    /\ reqs' = [reqs EXCEPT ![w] = Idle]
    /\ UNCHANGED <<users, items, nextUserId, nextItemId, now, held>>

\* A login that tells an unknown email from a wrong password.
login_enumerating(db_users, email, password, t) ==
    LET user == authenticate_user(db_users, email, password) IN
    IF get_user_by_email(db_users, email) = NoneId THEN Response(404, "User not found")
    ELSE IF user = NoneId THEN Response(401, "Incorrect email or password")
    ELSE [Response(200, "") EXCEPT !.token =
             <<create_access_token(UUIDstr(user), t, ACCESS_TOKEN_EXPIRE_MINUTES)>>]

\* POST /auth/login: the response. The handler reads the store once.
login(db_users, email, password, t) ==
    LET user == authenticate_user(db_users, email, password) IN
    IF user = NoneId THEN Response(401, "Incorrect email or password")
    ELSE [Response(200, "") EXCEPT !.token =
             <<create_access_token(UUIDstr(user), t, ACCESS_TOKEN_EXPIRE_MINUTES)>>]

Login(email, password) ==
    /\ resp' = login(users, email, password, now)
    /\ held' = IF resp'.status = 200 THEN resp'.token[1] ELSE held
    /\ UNCHANGED <<users, items, nextUserId, nextItemId, now, reqs>>

\* GET /auth/me. The dependency reads the store once and the handler returns
\* the row it loaded.
ReadCurrentUser(token) ==
    /\ LET cu == get_current_active_user(users, get_current_user(users, token, now)) IN
       resp' = IF ~cu.ok THEN Response(cu.status, cu.detail)
               ELSE [Response(200, "") EXCEPT !.user = <<UserRead(users, cu.user)>>]
    /\ UNCHANGED <<users, items, nextUserId, nextItemId, now, held, reqs>>

\* ------------------------------------------------------ routes/items.py
\* The start time of a transaction that opens now. Only the order of the
\* timestamps is observable (ORDER BY created_at), so a timestamp is an
\* ordinal: later than every timestamp that a record or an open transaction
\* still holds.
Max(S) == CHOOSE x \in S : \A y \in S : y <= x

TransactionStart ==
    1 + Max({0} \cup {items[i].created_at : i \in DOMAIN items}
                \cup {reqs[w].began : w \in Workers})

\* current_user: User = Depends(get_current_active_user), the first store
\* round trip of every /items route. The five routes declare the same
\* dependency and it runs before the handler's body. get_user's SELECT opens
\* the transaction of the request's session, which stays open until the body
\* commits; POST /items (creating) is the route whose body uses its start
\* time. The other four routes are told apart when the body starts, and the
\* body's inputs (path and JSON body) are read where the body uses them.
DependsCurrentActiveUser(w, token, creating) ==
    /\ reqs[w].pc = "idle"
    /\ LET cu == get_current_active_user(users, get_current_user(users, token, now)) IN
       IF ~cu.ok
       THEN /\ resp' = Response(cu.status, cu.detail)
            /\ UNCHANGED reqs
       ELSE /\ creating =>
                  nextItemId + Cardinality({v \in Workers : reqs[v].pc = "create_item"})
                      <= MaxItems
            /\ resp' = NoResponse
            /\ reqs' = [reqs EXCEPT ![w] =
                           [Idle EXCEPT !.pc = IF creating THEN "create_item" ELSE "handler",
                                        !.user = cu.user,
                                        !.began = IF creating THEN TransactionStart ELSE 0]]
    /\ UNCHANGED <<users, items, nextUserId, nextItemId, now, held>>

\* GET /items: the body.
ListMyItems(w) ==
    /\ reqs[w].pc = "handler"
    /\ resp' = [Response(200, "") EXCEPT !.items = list_items(items, reqs[w].user)]
    /\ reqs' = [reqs EXCEPT ![w] = Idle]
    /\ UNCHANGED <<users, items, nextUserId, nextItemId, now, held>>

\* POST /items: create_item's INSERT and commit. created_at is the server's
\* now(), the start time of the transaction. The foreign key items.owner_id ->
\* users.id rejects the row of an owner that is gone: IntegrityError,
\* uncaught, a 500.
CreateItemForUser(w, title, description) ==
    /\ reqs[w].pc = "create_item"
    /\ IF reqs[w].user \notin DOMAIN users
       THEN /\ resp' = Response(500, "Internal Server Error")
            /\ reqs' = [reqs EXCEPT ![w] = Idle]
            /\ UNCHANGED <<items, nextItemId>>
       ELSE /\ nextItemId <= MaxItems
            /\ items' = [i \in DOMAIN items \cup {nextItemId} |->
                            IF i = nextItemId
                            THEN create_item(reqs[w].user, title, description, reqs[w].began)
                            ELSE items[i]]
            /\ nextItemId' = nextItemId + 1
            /\ resp' = NoResponse
            /\ reqs' = [reqs EXCEPT ![w] = [Idle EXCEPT !.pc = "created",
                                                           !.user = reqs[w].user,
                                                           !.item = nextItemId]]
    /\ UNCHANGED <<users, nextUserId, now, held>>

\* POST /items: create_item's db.refresh, a SELECT by primary key, and the 201
\* built from the row it finds. With the row gone the refresh raises
\* InvalidRequestError, uncaught: a 500.
CreateItemRefresh(w) ==
    /\ reqs[w].pc = "created"
    /\ resp' = IF reqs[w].item \notin DOMAIN items
               THEN Response(500, "Internal Server Error")
               ELSE [Response(201, "") EXCEPT !.items = <<ItemRead(items, reqs[w].item)>>]
    /\ reqs' = [reqs EXCEPT ![w] = Idle]
    /\ UNCHANGED <<users, items, nextUserId, nextItemId, now, held>>

\* GET /items/{item_id}: the body.
GetItemById(w, item_id) ==
    /\ reqs[w].pc = "handler"
    /\ LET item == get_item(items, reqs[w].user, item_id) IN
       IF item = NoneId THEN resp' = Response(404, "Item not found")
       ELSE resp' = [Response(200, "") EXCEPT !.items = <<ItemRead(items, item)>>]
    /\ reqs' = [reqs EXCEPT ![w] = Idle]
    /\ UNCHANGED <<users, items, nextUserId, nextItemId, now, held>>

\* PUT /items/{item_id}: get_item and the 404.
UpdateItemById(w, item_id) ==
    /\ reqs[w].pc = "handler"
    /\ LET item == get_item(items, reqs[w].user, item_id) IN
       IF item = NoneId
       THEN /\ resp' = Response(404, "Item not found")
            /\ reqs' = [reqs EXCEPT ![w] = Idle]
       ELSE /\ resp' = NoResponse
            /\ reqs' = [reqs EXCEPT ![w] = [Idle EXCEPT !.pc = "update", !.user = reqs[w].user,
                                                        !.item = item,
                                                        !.loaded = items[item]]]
    /\ UNCHANGED <<users, items, nextUserId, nextItemId, now, held>>

\* PUT /items/{item_id}: update_item on the loaded item, up to its commit.
\* When the row is gone (deleted since get_item) the UPDATE matches no row:
\* StaleDataError, uncaught, a 500. With nothing to update no UPDATE is sent.
UpdateItemCommit(w, title, description) ==
    /\ reqs[w].pc = "update"
    /\ LET item == reqs[w].item
           updated == update_item(reqs[w].loaded, title, description)
       IN IF item \notin DOMAIN items
          THEN /\ UNCHANGED items
               /\ IF updated # reqs[w].loaded
                  THEN /\ resp' = Response(500, "Internal Server Error")
                       /\ reqs' = [reqs EXCEPT ![w] = Idle]
                  ELSE /\ resp' = NoResponse
                       /\ reqs' = [reqs EXCEPT ![w] = [Idle EXCEPT !.pc = "updated",
                                                                   !.user = reqs[w].user,
                                                                   !.item = item]]
          ELSE /\ items' = [items EXCEPT ![item] = commit_item(@, reqs[w].loaded, updated)]
               /\ resp' = NoResponse
               /\ reqs' = [reqs EXCEPT ![w] = [Idle EXCEPT !.pc = "updated",
                                                           !.user = reqs[w].user,
                                                           !.item = item]]
    /\ UNCHANGED <<users, nextUserId, nextItemId, now, held>>

\* PUT /items/{item_id}: update_item's db.refresh, a SELECT by primary key, and
\* the 200 built from the row it finds. With the row gone the refresh raises
\* InvalidRequestError, uncaught: a 500.
UpdateItemRefresh(w) ==
    /\ reqs[w].pc = "updated"
    /\ resp' = IF reqs[w].item \notin DOMAIN items
               THEN Response(500, "Internal Server Error")
               ELSE [Response(200, "") EXCEPT !.items = <<ItemRead(items, reqs[w].item)>>]
    /\ reqs' = [reqs EXCEPT ![w] = Idle]
    /\ UNCHANGED <<users, items, nextUserId, nextItemId, now, held>>

\* DELETE /items/{item_id}: get_item and the 404.
DeleteItemById(w, item_id) ==
    /\ reqs[w].pc = "handler"
    /\ LET item == get_item(items, reqs[w].user, item_id) IN
       IF item = NoneId
       THEN /\ resp' = Response(404, "Item not found")
            /\ reqs' = [reqs EXCEPT ![w] = Idle]
       ELSE /\ resp' = NoResponse
            /\ reqs' = [reqs EXCEPT ![w] = [Idle EXCEPT !.pc = "delete", !.user = reqs[w].user,
                                                        !.item = item]]
    /\ UNCHANGED <<users, items, nextUserId, nextItemId, now, held>>

\* DELETE /items/{item_id}: delete_item on the loaded item. A DELETE that
\* matches no row only warns, so the answer is 204 all the same.
DeleteItemCommit(w) ==
    /\ reqs[w].pc = "delete"
    /\ items' = delete_item(items, reqs[w].item)
    /\ resp' = Response(204, "")
    /\ reqs' = [reqs EXCEPT ![w] = Idle]
    /\ UNCHANGED <<users, nextUserId, nextItemId, now, held>>

\* An operation declared with Depends(get_current_active_superuser).
SuperuserOperation(token) ==
    /\ LET cu == get_current_active_superuser(users, get_current_user(users, token, now)) IN
       resp' = IF ~cu.ok THEN Response(cu.status, cu.detail) ELSE Response(200, "")
    /\ UNCHANGED <<users, items, nextUserId, nextItemId, now, held, reqs>>

\* ------------------------------------------------------- user_service.py
\* update_user, called on an identity of the store. No route calls it, and
\* what its refresh returns goes to no response.
UpdateUser(id, full_name, password) ==
    /\ id \in DOMAIN users
    /\ users' = [users EXCEPT ![id] = update_user(@, full_name, password, NewSalt(nextUserId))]
    /\ resp' = NoResponse
    /\ UNCHANGED <<items, nextUserId, nextItemId, now, held, reqs>>

\* ------------------------------------------------------------ the store
\* DELETE FROM users WHERE id = ...; items.owner_id is ON DELETE CASCADE.
StoreDeleteUser(id) ==
    /\ id \in DOMAIN users
    /\ users' = [u \in DOMAIN users \ {id} |-> users[u]]
    /\ items' = [i \in {j \in DOMAIN items : items[j].owner_id # id} |-> items[i]]
    /\ resp' = NoResponse
    /\ UNCHANGED <<nextUserId, nextItemId, now, held, reqs>>

\* UPDATE users SET is_active = ... (no HTTP operation writes the column).
StoreSetActive(id, flag) ==
    /\ id \in DOMAIN users
    /\ users[id].is_active # flag
    /\ users' = [users EXCEPT ![id].is_active = flag]
    /\ resp' = NoResponse
    /\ UNCHANGED <<items, nextUserId, nextItemId, now, held, reqs>>

\* UPDATE users SET is_superuser = ... (no HTTP operation writes the column).
StoreSetSuperuser(id, flag) ==
    /\ id \in DOMAIN users
    /\ users[id].is_superuser # flag
    /\ users' = [users EXCEPT ![id].is_superuser = flag]
    /\ resp' = NoResponse
    /\ UNCHANGED <<items, nextUserId, nextItemId, now, held, reqs>>

\* The wall clock read by jwt.decode and create_access_token, in minutes.
Tick ==
    /\ now + ACCESS_TOKEN_EXPIRE_MINUTES <= MaxTime
    /\ now' = now + ACCESS_TOKEN_EXPIRE_MINUTES
    /\ resp' = NoResponse
    /\ UNCHANGED <<users, items, nextUserId, nextItemId, held, reqs>>

\* ------------------------------------------------------- specifications
\* The records: the requests of the workers to the /items routes interleaved,
\* made by identities that register and log in with the first password and
\* an email typed in lower case.
Next ==
    \/ \E w \in Workers, e \in RegisterEmails, p \in RegisterPasswords : RegisterCheck(w, e, p)
    \/ \E w \in Workers, fn \in FullNames : RegisterCreate(w, fn)
    \/ \E w \in Workers : RegisterRefresh(w)
    \/ \E e \in RegisterEmails, p \in RegisterPasswords : Login(e, p)
    \/ \E w \in Workers, t \in Bearers, c \in BOOLEAN : DependsCurrentActiveUser(w, t, c)
    \/ \E w \in Workers : ListMyItems(w)
    \/ \E w \in Workers, ti \in CreateTitles, d \in CreateDescriptions :
          CreateItemForUser(w, ti, d)
    \/ \E w \in Workers : CreateItemRefresh(w)
    \/ \E w \in Workers, i \in ItemIds : GetItemById(w, i)
    \/ \E w \in Workers, i \in ItemIds : UpdateItemById(w, i)
    \/ \E w \in Workers, ti \in UpdateTitles, d \in UpdateDescriptions :
          UpdateItemCommit(w, ti, d)
    \/ \E w \in Workers : UpdateItemRefresh(w)
    \/ \E w \in Workers, i \in ItemIds : DeleteItemById(w, i)
    \/ \E w \in Workers : DeleteItemCommit(w)

Spec == Init /\ [][Next]_vars

\* The HTTP surface, and an operator who deletes and deactivates identities
\* in the store between the requests' round trips. Records are created
\* without a description and a PUT sends no field.
NextStore ==
    \/ \E w \in Workers, e \in RegisterEmails, p \in RegisterPasswords : RegisterCheck(w, e, p)
    \/ \E w \in Workers, fn \in FullNames : RegisterCreate(w, fn)
    \/ \E w \in Workers : RegisterRefresh(w)
    \/ \E e \in RegisterEmails, p \in RegisterPasswords : Login(e, p)
    \/ \E t \in Bearers : ReadCurrentUser(t)
    \/ \E w \in Workers, t \in Bearers, c \in BOOLEAN : DependsCurrentActiveUser(w, t, c)
    \/ \E w \in Workers : ListMyItems(w)
    \/ \E w \in Workers, ti \in CreateTitles : CreateItemForUser(w, ti, None)
    \/ \E w \in Workers : CreateItemRefresh(w)
    \/ \E w \in Workers, i \in ItemIds : GetItemById(w, i)
    \/ \E w \in Workers, i \in ItemIds : UpdateItemById(w, i)
    \/ \E w \in Workers : UpdateItemCommit(w, None, None)
    \/ \E w \in Workers : UpdateItemRefresh(w)
    \/ \E w \in Workers, i \in ItemIds : DeleteItemById(w, i)
    \/ \E w \in Workers : DeleteItemCommit(w)
    \/ \E id \in DOMAIN users : StoreDeleteUser(id)
    \/ \E id \in DOMAIN users, f \in BOOLEAN : StoreSetActive(id, f)

SpecStore == Init /\ [][NextStore]_vars

\* The authentication and authorization core: registration, login, the
\* dependencies of deps.py, the operator's changes to identities, the clock.
NextAuth ==
    \/ \E w \in Workers, e \in Emails, p \in RegisterPasswords : RegisterCheck(w, e, p)
    \/ \E w \in Workers, fn \in FullNames : RegisterCreate(w, fn)
    \/ \E w \in Workers : RegisterRefresh(w)
    \/ \E e \in Emails, p \in Passwords : Login(e, p)
    \/ \E t \in AuthBearers : ReadCurrentUser(t)
    \/ \E t \in AuthBearers : SuperuserOperation(t)
    \/ \E id \in DOMAIN users : StoreDeleteUser(id)
    \/ \E id \in DOMAIN users, f \in BOOLEAN : StoreSetActive(id, f)
    \/ \E id \in DOMAIN users, f \in BOOLEAN : StoreSetSuperuser(id, f)
    \/ Tick

SpecAuth == Init /\ [][NextAuth]_vars

\* The accounts: registrations and logins handled concurrently by the
\* workers, and the service's update_user.
NextAccounts ==
    \/ \E w \in Workers, e \in Emails, p \in Passwords : RegisterCheck(w, e, p)
    \/ \E w \in Workers, fn \in FullNames : RegisterCreate(w, fn)
    \/ \E w \in Workers : RegisterRefresh(w)
    \/ \E e \in Emails, p \in Passwords : Login(e, p)
    \/ \E id \in DOMAIN users, fn \in UpdateFullNames, p \in UpdatePasswords :
          UpdateUser(id, fn, p)

SpecAccounts == Init /\ [][NextAccounts]_vars

\* ------------------------------------------------------------ the claims
\* What a bearer token stands for, read off the token and the store directly.
Unexpired(t) == t.kind = "signed" /\ t.exp >= now

CallerOf(t) == UUID(t.sub)

Resolves(t) == Unexpired(t) /\ t.sub # <<>> /\ CallerOf(t) \in DOMAIN users

ActiveCaller(t) == Resolves(t) /\ users[CallerOf(t)].is_active

ItemNotFound ==
    [status |-> 404, detail |-> "Item not found", items |-> <<>>, user |-> <<>>, token |-> <<>>]

\* The records that belong to identities other than u are all where they were.
OthersRecordsKept(u) ==
    \A j \in DOMAIN items :
        items[j].owner_id # u => j \in DOMAIN items' /\ items'[j] = items[j]

\* C1. Ownership isolation, under every interleaving of the requests: the
\* identity a route acts for is the one its token names; GET /items as A holds
\* only records owned by A; GET, PUT and DELETE /items/{id} as A on a record
\* owned by another identity answer 404 "Item not found", the answer for an id
\* that names no record; the record in the answer to a POST or a PUT of A is
\* owned by A; and no step of a request of A changes or removes a record of
\* another identity. (A step of a request moves its worker's slot.)
C1_Step ==
    \A w \in Workers :
        reqs'[w] # reqs[w] =>
        /\ reqs[w].pc = "idle" /\ reqs'[w].pc \in {"handler", "create_item"} =>
              \A t \in Bearers, c \in BOOLEAN :
                  DependsCurrentActiveUser(w, t, c) =>
                      Resolves(t) /\ reqs'[w].user = CallerOf(t)
        /\ reqs[w].pc = "handler" =>
              /\ resp'.status = 200 /\ ListMyItems(w) =>
                    \A k \in DOMAIN resp'.items : resp'.items[k].owner_id = reqs[w].user
              /\ \A i \in DOMAIN items :
                    items[i].owner_id # reqs[w].user =>
                        /\ GetItemById(w, i) => resp' = ItemNotFound /\ items' = items
                        /\ UpdateItemById(w, i) =>
                              resp' = ItemNotFound /\ items' = items /\ reqs'[w] = Idle
                        /\ DeleteItemById(w, i) =>
                              resp' = ItemNotFound /\ items' = items /\ reqs'[w] = Idle
        /\ reqs[w].pc = "create_item" =>
              \A ti \in CreateTitles, d \in CreateDescriptions :
                  CreateItemForUser(w, ti, d) => OthersRecordsKept(reqs[w].user)
        /\ reqs[w].pc = "update" =>
              \A ti \in UpdateTitles, d \in UpdateDescriptions :
                  UpdateItemCommit(w, ti, d) => OthersRecordsKept(reqs[w].user)
        /\ reqs[w].pc = "delete" /\ DeleteItemCommit(w) => OthersRecordsKept(reqs[w].user)
        /\ reqs[w].pc \in {"created", "updated"} /\ resp'.status \in {200, 201} =>
              ( CreateItemRefresh(w) \/ UpdateItemRefresh(w) =>
                    /\ resp'.items[1].owner_id = reqs[w].user
                    /\ items' = items )

C1_OwnershipIsolation == [][C1_Step]_vars

\* A 404 while every id of ItemIds names a record and every record belongs to
\* another identity than the caller (the held token, the only one that
\* resolves): the caller asked for a record that exists and is not theirs.
C1_Witness ==
    /\ resp = ItemNotFound
    /\ DOMAIN items = ItemIds
    /\ ActiveCaller(held)
    /\ \A i \in DOMAIN items : items[i].owner_id # CallerOf(held)
    /\ \A w \in Workers : reqs[w] = Idle

\* C9. A record's owner is fixed at creation: POST /items makes one new record
\* owned by the caller and answers with a record of the caller's, no step
\* changes the owner of a record that stays, and PUT /items/{id} changes only
\* the title and the description of the record it names, and of those only a
\* field that was sent, to the value sent.
C9_Step ==
    /\ \A i \in DOMAIN items \cap DOMAIN items' : items'[i].owner_id = items[i].owner_id
    /\ \A w \in Workers :
          reqs'[w] # reqs[w] =>
          /\ reqs[w].pc = "create_item" /\ items' # items =>
                \A ti \in CreateTitles, d \in CreateDescriptions :
                    CreateItemForUser(w, ti, d) =>
                        /\ \E n \in ItemIds \ DOMAIN items :
                              /\ DOMAIN items' = DOMAIN items \cup {n}
                              /\ items'[n].owner_id = reqs[w].user
                              /\ items'[n].title = ti
                              /\ items'[n].description = d
                              /\ reqs'[w].item = n
                        /\ \A j \in DOMAIN items : items'[j] = items[j]
          /\ reqs[w].pc = "created" /\ resp'.status = 201 /\ CreateItemRefresh(w) =>
                /\ resp'.items = <<ItemRead(items, reqs[w].item)>>
                /\ resp'.items[1].owner_id = reqs[w].user
                /\ items' = items
          /\ reqs[w].pc = "update" =>
                \A ti \in UpdateTitles, d \in UpdateDescriptions :
                    UpdateItemCommit(w, ti, d) =>
                        LET i == reqs[w].item IN
                        /\ DOMAIN items' = DOMAIN items
                        /\ \A j \in DOMAIN items \ {i} : items'[j] = items[j]
                        /\ i \in DOMAIN items =>
                              /\ items'[i].owner_id = items[i].owner_id
                              /\ items'[i].created_at = items[i].created_at
                              /\ ti = None => items'[i].title = items[i].title
                              /\ d = None => items'[i].description = items[i].description
                              /\ items'[i].title \in {items[i].title, ti}
                              /\ items'[i].description \in {items[i].description, d}
                              /\ reqs'[w].pc = "updated"
          /\ reqs[w].pc = "updated" /\ UpdateItemRefresh(w) =>
                /\ items' = items
                /\ resp'.status = 200 => resp'.items = <<ItemRead(items, reqs[w].item)>>

C9_OwnerFixed == [][C9_Step]_vars

\* The answer to a PUT that sent a title and no description (the title "" is
\* never given at creation) for a record created with a description, while a
\* second record exists.
C9_Witness ==
    /\ resp.status = 200
    /\ Len(resp.items) = 1
    /\ resp.items[1].title = ""
    /\ resp.items[1].description = "milk"
    /\ resp.items[1].id \in DOMAIN items
    /\ items[resp.items[1].id].title = ""
    /\ items[resp.items[1].id].description = "milk"
    /\ Cardinality(DOMAIN items) = 2

\* C5. A registered (email, password) authenticates, under every casing of the
\* email at registration and at login, from the commit of the registration
\* on, and goes on doing so whatever is registered or logged in afterwards
\* (the service's update_user, which no request reaches, is what replaces a
\* password); the 201 shows the identity registered and the login issues a
\* token for that identity.
C5_Step ==
    /\ \A w \in Workers :
          /\ reqs[w].pc = "create" /\ users' # users =>
                \A fn \in FullNames :
                    RegisterCreate(w, fn) =>
                        \E id \in DOMAIN users' \ DOMAIN users :
                            /\ reqs'[w].user = id
                            /\ \A e2 \in Emails :
                                  Lower(e2) = Lower(reqs[w].email) =>
                                      /\ authenticate_user(users', e2, reqs[w].password) = id
                                      /\ Lower(users'[id].email) = Lower(e2)
          /\ reqs[w].pc = "registered" /\ resp'.status = 201 /\ RegisterRefresh(w) =>
                resp'.user = <<UserRead(users, reqs[w].user)>>
    /\ \A e \in Emails, p \in Passwords :
          LET id == authenticate_user(users, e, p) IN
          id # NoneId =>
              /\ ( \A fn \in UpdateFullNames, p2 \in UpdatePasswords \ {None} :
                       ~UpdateUser(id, fn, p2) ) =>
                    authenticate_user(users', e, p) = id
              /\ Login(e, p) => /\ resp'.status = 200
                                /\ held'.kind = "signed"
                                /\ held'.sub = UUIDstr(id)

C5_RegisteredAuthenticates == [][C5_Step]_vars

\* A login that succeeded as the identity registered under "a" or "A" while a
\* second identity is registered.
C5_Witness ==
    /\ resp.status = 200
    /\ resp.token = <<held>>
    /\ Resolves(held)
    /\ users[CallerOf(held)].email = <<"a">>
    /\ Cardinality(DOMAIN users) = 2

LoginFailure ==
    [status |-> 401, detail |-> "Incorrect email or password", items |-> <<>>,
     user |-> <<>>, token |-> <<>>]

\* C6. A login that fails answers 401 with one fixed body, whether the email is
\* unknown or the password wrong, and changes nothing: the answer to a failed
\* login does not depend on the attempts before it.
C6_Step ==
    \A e \in Emails, p \in Passwords :
        Login(e, p) =>
            LET known == \E id \in DOMAIN users : users[id].email = Lower(e)
                right == \E id \in DOMAIN users :
                            /\ users[id].email = Lower(e)
                            /\ verify_password(p, users[id].hashed_password)
            IN /\ ~known => resp' = LoginFailure
               /\ known /\ ~right => resp' = LoginFailure
               /\ resp'.status # 200 =>
                     /\ resp' = LoginFailure
                     /\ UNCHANGED <<users, items, nextUserId, nextItemId, now, held, reqs>>

C6_LoginFailuresUniform == [][C6_Step]_vars

\* A failed login while every email of Emails is registered: a wrong password.
C6_Witness ==
    /\ resp = LoginFailure
    /\ \A e \in Emails : \E id \in DOMAIN users : users[id].email = Lower(e)

\* A request arriving with the token t at GET /auth/me or at an /items route:
\* the step of its dependency.
GatedRequest(t) ==
    \/ ReadCurrentUser(t)
    \/ \E w \in Workers, c \in BOOLEAN : DependsCurrentActiveUser(w, t, c)

\* C2. A token issued by a login, not yet expired, whose identity has since
\* been deleted from the store: a request that arrives with it is answered
\* 401, enters no handler, and leaves the store as it was.
C2_Step ==
    \A t \in Bearers :
        /\ Unexpired(t)
        /\ CallerOf(t) # ValueError
        /\ CallerOf(t) \notin DOMAIN users
        /\ GatedRequest(t)
        => /\ resp'.status = 401
           /\ reqs' = reqs
           /\ items' = items
           /\ users' = users

C2_DeletedIdentityRejected == [][C2_Step]_vars

\* The held token is unexpired, its identity is gone, and the last request,
\* made with it, was answered 401 "User not found".
C2_Witness ==
    /\ Unexpired(held)
    /\ CallerOf(held) # ValueError
    /\ CallerOf(held) \notin DOMAIN users
    /\ DOMAIN users # {}
    /\ resp.status = 401
    /\ resp.detail = "User not found"

InactiveUser ==
    [status |-> 400, detail |-> "Inactive user", items |-> <<>>, user |-> <<>>,
     token |-> <<>>]

\* C8. The active flag gates all access: a request to GET /auth/me or to an
\* /items route whose token resolves to an inactive identity is answered 400,
\* enters no handler, and leaves the records as they were.
C8_Step ==
    \A t \in Bearers :
        /\ Resolves(t)
        /\ ~users[CallerOf(t)].is_active
        /\ GatedRequest(t)
        => /\ resp' = InactiveUser
           /\ reqs' = reqs
           /\ items' = items

C8_InactiveGated == [][C8_Step]_vars

\* An inactive identity that owns a record was just answered 400, no request
\* being in flight.
C8_Witness ==
    /\ resp = InactiveUser
    /\ Resolves(held)
    /\ ~users[CallerOf(held)].is_active
    /\ \E i \in DOMAIN items : items[i].owner_id = CallerOf(held)
    /\ \A w \in Workers : reqs[w] = Idle

\* A step of a handler of the HTTP surface.
HTTPStep ==
    \/ \E w \in Workers, e \in Emails, p \in Passwords : RegisterCheck(w, e, p)
    \/ \E w \in Workers, fn \in FullNames : RegisterCreate(w, fn)
    \/ \E e \in Emails, p \in Passwords : Login(e, p)
    \/ \E t \in Bearers : GatedRequest(t)
    \/ \E w \in Workers :
          \/ RegisterRefresh(w)
          \/ ListMyItems(w)
          \/ \E ti \in CreateTitles, d \in CreateDescriptions : CreateItemForUser(w, ti, d)
          \/ CreateItemRefresh(w)
          \/ \E i \in ItemIds : GetItemById(w, i) \/ UpdateItemById(w, i) \/ DeleteItemById(w, i)
          \/ \E ti \in UpdateTitles, d \in UpdateDescriptions : UpdateItemCommit(w, ti, d)
          \/ UpdateItemRefresh(w)
          \/ DeleteItemCommit(w)

\* C10. No privilege change through the HTTP surface: a step of a handler
\* keeps every identity and its active and superuser flags, and an identity it
\* creates is active and not a superuser.
C10_Step ==
    users' # users /\ HTTPStep =>
        /\ DOMAIN users \subseteq DOMAIN users'
        /\ \A id \in DOMAIN users' :
              IF id \in DOMAIN users
              THEN /\ users'[id].is_active = users[id].is_active
                   /\ users'[id].is_superuser = users[id].is_superuser
              ELSE /\ users'[id].is_active
                   /\ ~users'[id].is_superuser

C10_NoPrivilegeChange == [][C10_Step]_vars

\* A registration just succeeded next to an identity the operator deactivated.
C10_Witness ==
    /\ resp.status = 201
    /\ Len(resp.user) = 1
    /\ resp.user[1].id \in DOMAIN users
    /\ users[resp.user[1].id].is_active
    /\ ~users[resp.user[1].id].is_superuser
    /\ \E id \in DOMAIN users : ~users[id].is_active

\* A step of an operation of the authentication core made with the token t.
ResolvingOp(t) == ReadCurrentUser(t) \/ SuperuserOperation(t)

\* C3. require_active before require_superuser: an operation guarded by the
\* superuser check answers an inactive identity with 400 "Inactive user",
\* whatever its superuser flag.
C3_Step ==
    \A t \in AuthBearers :
        /\ Resolves(t)
        /\ ~users[CallerOf(t)].is_active
        /\ SuperuserOperation(t)
        => resp' = InactiveUser

C3_ActiveCheckedFirst == [][C3_Step]_vars

CouldNotValidate ==
    [status |-> 401, detail |-> "Could not validate credentials", items |-> <<>>,
     user |-> <<>>, token |-> <<>>]

\* C7. Every way resolve can fail is answered 401 "Could not validate
\* credentials": a token that does not decode, an empty subject, and a subject
\* that names no identity.
C7_Step ==
    \A t \in AuthBearers :
        ~Resolves(t) /\ ResolvingOp(t) => resp' = CouldNotValidate

C7_AllFailuresGeneric == [][C7_Step]_vars

\* C4. Registration answers 201 or 400 under every interleaving, never a 5xx,
\* and no two identities share a lowercased email.
C4_RegisterNeverFaults ==
    /\ resp.status < 500
    /\ \A i, j \in DOMAIN users :
          i # j => Lower(users[i].email) # Lower(users[j].email)
====
